---- MODULE Spec2Model ----
(***************************************************************************)
(* A model of build.rs of audiopus_sys: the build script that decides how  *)
(* libopus is linked (static or dynamic), whether an installed copy is     *)
(* used, and otherwise drives the source build (cp, autogen, configure,    *)
(* make, make install) or links the bundled MSVC binaries.                 *)
(*                                                                         *)
(* One behaviour of the model is one run of 'main'.  Paths are sequences   *)
(* of one-character strings, so that 'replace("\\", "/")' and the          *)
(* '{}/lib' formatting are computed and not assumed.  An environment       *)
(* variable is an option: None when env::var returns Err, Some(v) when it  *)
(* returns Ok(v).                                                          *)
(***************************************************************************)
EXTENDS Naturals, Sequences, FiniteSets, TLC

\* Longest OUT_DIR value explored, in characters.
MaxPathLen == 2

None == <<>>
Some(v) == <<v>>
IsSome(o) == Len(o) = 1
Opt(S) == {None} \cup {Some(v) : v \in S}

\* The characters a path is made of: a name character and the two separators.
PathChars == {"o", "/", "\\"}
Paths == UNION {[1..n -> PathChars] : n \in 1..MaxPathLen}

\* Values a user gives LIBOPUS_LIB_DIR / OPUS_LIB_DIR.
LibDirs == {<<"/", "u">>, <<"/", "v">>}
\* Value of a flag variable (only its presence is ever tested).
FlagValues == {"1"}

Features == {"static", "dynamic"}
\* The cfg the script is compiled under: lines 28 / 246 / 348 against lines
\* 157 / 163 / 222, the latter with ARCHITECTURE chosen by lines 167-170.
Cfgs == {"unix_or_gnu", "msvc_x86", "msvc_x86_64"}

Families == {"windows", "unix"}
OperatingSystems == {"macos", "linux"}
TargetEnvs == {"musl", "gnu"}
Architectures == {"x86_64", "aarch64"}
PointerWidths == {"32", "64"}

\* A subprocess either cannot be spawned, exits non-zero, or succeeds.
Statuses == {"ok", "nonzero", "spawn_error"}

\* Where pkg-config reports the library (printed by the probe itself).
PkgConfigLibDir == <<"/", "p">>

VARIABLES
  features,                 \* the cargo features compiled in (cfg!(feature = ..))
  cfg,                      \* the cfg branch compiled in
  env,                      \* the user's override variables, fixed for the run
  facts,                    \* the cargo-supplied variables read by the last reader
  pc,                       \* position of the run
  panic,                    \* the panic message, "" while the run has not panicked
  installed_lib_directory,  \* main's local (line 344)
  is_static,                \* main's local (line 346), None until resolved
  probes,                   \* the pkg-config probes made, in order
  build_opus_args,          \* the arguments of the call of build_opus, None before it
  command_builder,          \* the configure command being built (line 83)
  commands,                 \* the subprocesses run, in order, with their status
  emitted                   \* the link directives printed, in order

vars == <<features, cfg, env, facts, pc, panic, installed_lib_directory, is_static,
          probes, build_opus_args, command_builder, commands, emitted>>

Ok(v) == [val |-> v, panic |-> ""]
Panic(msg) == [val |-> FALSE, panic |-> msg]

NoFacts == [x \in {} |-> None]
EmptyCommand == [args |-> <<>>, envs |-> {}, prefix |-> <<>>]

--------------------------------------------------------------------------
(* Pure functions of build.rs *)

rustc_linking_word(is_static_link) == IF is_static_link THEN "static" ELSE "dylib"

is_target_x32(f) ==
  IF IsSome(f["CARGO_CFG_TARGET_POINTER_WIDTH"])
  THEN f["CARGO_CFG_TARGET_POINTER_WIDTH"][1] = "32"
  ELSE FALSE

is_target_os(f, os) ==
  IF IsSome(f["CARGO_CFG_TARGET_OS"]) THEN f["CARGO_CFG_TARGET_OS"][1] = os ELSE FALSE

is_target_family(f, family) ==
  IF IsSome(f["CARGO_CFG_TARGET_FAMILY"])
  THEN f["CARGO_CFG_TARGET_FAMILY"][1] = family
  ELSE FALSE

is_target_env(f, e) ==
  IF IsSome(f["CARGO_CFG_TARGET_ENV"]) THEN f["CARGO_CFG_TARGET_ENV"][1] = e ELSE FALSE

\* is_cross_compiled as it would be with `unwrap_or(false)` like the other
\* predicates: an absent architecture variable reads as "not cross-compiled".
is_cross_compiled_fails_open(f) ==
  IF IsSome(f["CARGO_CFG_HOST_ARCH"]) /\ IsSome(f["CARGO_CFG_TARGET_ARCH"])
  THEN Ok(f["CARGO_CFG_HOST_ARCH"][1] # f["CARGO_CFG_TARGET_ARCH"][1])
  ELSE Ok(FALSE)

is_cross_compiled(f) ==
  IF ~IsSome(f["CARGO_CFG_HOST_ARCH"])
  THEN Panic("Could not read host architecture environment variable.")
  ELSE IF ~IsSome(f["CARGO_CFG_TARGET_ARCH"])
  THEN Panic("Could not read target architecture environment variable.")
  ELSE Ok(f["CARGO_CFG_HOST_ARCH"][1] # f["CARGO_CFG_TARGET_ARCH"][1])

\* default_library_linking as it would be if the last branch guessed dynamic
\* linking instead of panicking.
default_library_linking_guessing(f) ==
  IF is_target_family(f, "windows") \/ is_target_os(f, "macos") \/ is_target_env(f, "musl")
  THEN Ok(TRUE)
  ELSE Ok(FALSE)

default_library_linking(f) ==
  IF is_target_family(f, "windows") \/ is_target_os(f, "macos") \/ is_target_env(f, "musl")
  THEN Ok(TRUE)
  ELSE IF is_target_family(f, "unix") /\ is_target_env(f, "gnu")
  THEN Ok(FALSE)
  ELSE Panic("Unsupported target operating system.")

\* find_installed_opus as it would be with the two variables read in the
\* other order.
find_installed_opus_swapped(e) ==
  IF IsSome(e["OPUS_LIB_DIR"]) THEN e["OPUS_LIB_DIR"]
  ELSE IF IsSome(e["LIBOPUS_LIB_DIR"]) THEN e["LIBOPUS_LIB_DIR"]
  ELSE None

find_installed_opus(e) ==
  IF IsSome(e["LIBOPUS_LIB_DIR"]) THEN e["LIBOPUS_LIB_DIR"]
  ELSE IF IsSome(e["OPUS_LIB_DIR"]) THEN e["OPUS_LIB_DIR"]
  ELSE None

\* is_static_build as it would be without its first branch: the static toggle
\* and the static-override variables win over the dynamic toggle.
is_static_build_static_first(feat, e, f) ==
  IF "static" \in feat \/ IsSome(e["LIBOPUS_STATIC"]) \/ IsSome(e["OPUS_STATIC"])
  THEN Ok(TRUE)
  ELSE IF "dynamic" \in feat
  THEN Ok(FALSE)
  ELSE default_library_linking(f)

is_static_build(feat, e, f) ==
  IF "static" \in feat /\ "dynamic" \in feat
  THEN default_library_linking(f)
  ELSE IF "static" \in feat \/ IsSome(e["LIBOPUS_STATIC"]) \/ IsSome(e["OPUS_STATIC"])
  THEN Ok(TRUE)
  ELSE IF "dynamic" \in feat
  THEN Ok(FALSE)
  ELSE default_library_linking(f)

\* The condition of line 350 as it would be if only LIBOPUS_NO_PKG were read.
pkg_config_bypassed_first_only(e) == IsSome(e["LIBOPUS_NO_PKG"])

\* The condition of line 350.
pkg_config_bypassed(e) == IsSome(e["LIBOPUS_NO_PKG"]) \/ IsSome(e["OPUS_NO_PKG"])

\* str::replace("\\", "/") of line 121.
replace_backslash(p) == [i \in 1..Len(p) |-> IF p[i] = "\\" THEN "/" ELSE p[i]]

\* format!("{}/lib", build_directory.display()) of lines 151-154.
lib_subdirectory(p) == p \o <<"/", "l", "i", "b">>

--------------------------------------------------------------------------
Init ==
  /\ features \in SUBSET Features
  /\ cfg \in Cfgs
  /\ \E ld \in Opt(LibDirs), od \in Opt(LibDirs),
        ls \in Opt(FlagValues), os \in Opt(FlagValues),
        ln \in Opt(FlagValues), on \in Opt(FlagValues) :
       env = [LIBOPUS_LIB_DIR |-> ld, OPUS_LIB_DIR |-> od,
              LIBOPUS_STATIC |-> ls, OPUS_STATIC |-> os,
              LIBOPUS_NO_PKG |-> ln, OPUS_NO_PKG |-> on]
  /\ facts = NoFacts
  /\ pc = "main"
  /\ panic = ""
  /\ installed_lib_directory = None
  /\ is_static = None
  /\ probes = <<>>
  /\ build_opus_args = None
  /\ command_builder = EmptyCommand
  /\ commands = <<>>
  /\ emitted = <<>>

\* main, line 344.
Main_find_installed_opus ==
  /\ pc = "main"
  /\ installed_lib_directory' = find_installed_opus(env)
  /\ pc' = "is_static_build"
  /\ UNCHANGED <<features, cfg, env, facts, panic, is_static, probes, build_opus_args,
                 command_builder, commands, emitted>>

\* main, line 346: is_static_build and, through it, default_library_linking.
Main_is_static_build ==
  /\ pc = "is_static_build"
  /\ \E fam \in Opt(Families), os \in Opt(OperatingSystems), te \in Opt(TargetEnvs) :
       LET f == [CARGO_CFG_TARGET_FAMILY |-> fam, CARGO_CFG_TARGET_OS |-> os,
                 CARGO_CFG_TARGET_ENV |-> te]
           r == is_static_build(features, env, f)
       IN /\ facts' = f
          /\ IF r.panic # ""
             THEN /\ pc' = "panicked"
                  /\ panic' = r.panic
                  /\ is_static' = is_static
             ELSE /\ pc' = IF cfg = "unix_or_gnu" THEN "pkg_config" ELSE "build"
                  /\ panic' = panic
                  /\ is_static' = Some(r.val)
  /\ UNCHANGED <<features, cfg, env, installed_lib_directory, probes, build_opus_args,
                 command_builder, commands, emitted>>

\* main, lines 350-351: a bypass variable is set, pkg-config is not asked.
Main_pkg_config_bypassed ==
  /\ pc = "pkg_config"
  /\ pkg_config_bypassed(env)
  /\ pc' = "build"
  /\ UNCHANGED <<features, cfg, env, facts, panic, installed_lib_directory, is_static,
                 probes, build_opus_args, command_builder, commands, emitted>>

\* Lines 352-355 as they would be without the `return`: the run goes on to
\* build_opus after the probe has printed its directive.
Main_pkg_config_found_no_return ==
  /\ pc = "pkg_config"
  /\ ~pkg_config_bypassed(env)
  /\ probes' = Append(probes, [statik |-> is_static[1], found |-> TRUE])
  /\ emitted' = Append(emitted, [origin |-> "pkg_config",
                                 kind |-> rustc_linking_word(is_static[1]),
                                 name |-> "opus",
                                 search |-> PkgConfigLibDir])
  /\ pc' = "build"
  /\ UNCHANGED <<features, cfg, env, facts, panic, installed_lib_directory, is_static,
                 build_opus_args, command_builder, commands>>

\* main, lines 352-355 with find_via_pkg_config (lines 247-252): the probe finds
\* the library, prints the directive for it itself, and main returns.
Main_pkg_config_found ==
  /\ pc = "pkg_config"
  /\ ~pkg_config_bypassed(env)
  /\ probes' = Append(probes, [statik |-> is_static[1], found |-> TRUE])
  /\ emitted' = Append(emitted, [origin |-> "pkg_config",
                                 kind |-> rustc_linking_word(is_static[1]),
                                 name |-> "opus",
                                 search |-> PkgConfigLibDir])
  /\ pc' = "done"
  /\ UNCHANGED <<features, cfg, env, facts, panic, installed_lib_directory, is_static,
                 build_opus_args, command_builder, commands>>

\* Lines 352 and 356-358 as they would be if a failed probe were an error.
Main_pkg_config_not_found_fatal ==
  /\ pc = "pkg_config"
  /\ ~pkg_config_bypassed(env)
  /\ probes' = Append(probes, [statik |-> is_static[1], found |-> FALSE])
  /\ pc' = "panicked"
  /\ panic' = "'pkg_config' could not find 'Opus'."
  /\ UNCHANGED <<features, cfg, env, facts, installed_lib_directory, is_static,
                 build_opus_args, command_builder, commands, emitted>>

\* main, lines 352 and 356-358: the probe fails, which is only logged.
Main_pkg_config_not_found ==
  /\ pc = "pkg_config"
  /\ ~pkg_config_bypassed(env)
  /\ probes' = Append(probes, [statik |-> is_static[1], found |-> FALSE])
  /\ pc' = "build"
  /\ UNCHANGED <<features, cfg, env, facts, panic, installed_lib_directory, is_static,
                 build_opus_args, command_builder, commands, emitted>>

\* main, lines 361-366: read OUT_DIR and call build_opus.
Main_build_opus ==
  /\ pc = "build"
  /\ \E out_dir \in Opt(Paths) :
       /\ facts' = [OUT_DIR |-> out_dir]
       /\ IF ~IsSome(out_dir)
          THEN /\ pc' = "panicked"
               /\ panic' = "Environment variable 'OUT_DIR' is missing."
               /\ build_opus_args' = build_opus_args
          ELSE /\ pc' = IF cfg = "unix_or_gnu" THEN "build_opus" ELSE "link_prebuilt_opus"
               /\ panic' = panic
               /\ build_opus_args' = Some([build_directory |-> out_dir[1],
                                           is_static |-> is_static[1],
                                           installed_lib_directory |-> installed_lib_directory])
  /\ UNCHANGED <<features, cfg, env, installed_lib_directory, is_static, probes,
                 command_builder, commands, emitted>>

\* The parameters of the running call of build_opus / link_prebuilt_opus.
Args == build_opus_args[1]

\* Lines 30-40 as they would be without the `return`: the directive for the
\* installed library is printed and the source build starts all the same.
BuildOpus_installed_no_return ==
  /\ pc = "build_opus"
  /\ IsSome(build_opus_args[1].installed_lib_directory)
  /\ emitted' = Append(emitted, [origin |-> "build_opus:installed",
                                 kind |-> rustc_linking_word(build_opus_args[1].is_static),
                                 name |-> "opus",
                                 search |-> build_opus_args[1].installed_lib_directory[1]])
  /\ pc' = "cp"
  /\ UNCHANGED <<features, cfg, env, facts, panic, installed_lib_directory, is_static,
                 probes, build_opus_args, command_builder, commands>>

\* build_opus (unix or gnu), lines 30-40: an installed library is linked as it is.
BuildOpus_installed ==
  /\ pc = "build_opus"
  /\ IsSome(Args.installed_lib_directory)
  /\ emitted' = Append(emitted, [origin |-> "build_opus:installed",
                                 kind |-> rustc_linking_word(Args.is_static),
                                 name |-> "opus",
                                 search |-> Args.installed_lib_directory[1]])
  /\ pc' = "done"
  /\ UNCHANGED <<features, cfg, env, facts, panic, installed_lib_directory, is_static,
                 probes, build_opus_args, command_builder, commands>>

\* build_opus, lines 42-44: the bundled sources are located.
BuildOpus_canonicalize ==
  /\ pc = "build_opus"
  /\ ~IsSome(Args.installed_lib_directory)
  /\ \E found \in BOOLEAN :
       IF found
       THEN pc' = "cp" /\ panic' = panic
       ELSE pc' = "panicked" /\ panic' = "Could not canonicalise."
  /\ UNCHANGED <<features, cfg, env, facts, installed_lib_directory, is_static, probes,
                 build_opus_args, command_builder, commands, emitted>>

\* A step as it would be run without the check of `success()`: only a failure
\* to spawn panics.
RunStep_unchecked(step, status, next, spawn_msg, fail_msg) ==
  /\ commands' = Append(commands, [step |-> step, status |-> status])
  /\ IF status = "spawn_error"
     THEN pc' = "panicked" /\ panic' = spawn_msg
     ELSE pc' = next /\ panic' = panic

\* Command::status() of one step, `.expect(spawn_msg)`, and the check of
\* `success()` that panics with fail_msg.
RunStep(step, status, next, spawn_msg, fail_msg) ==
  /\ commands' = Append(commands, [step |-> step, status |-> status])
  /\ IF status = "spawn_error"
     THEN pc' = "panicked" /\ panic' = spawn_msg
     ELSE IF status = "nonzero"
     THEN pc' = "panicked" /\ panic' = fail_msg
     ELSE pc' = next /\ panic' = panic

\* build_opus, lines 55-69.
BuildOpus_cp ==
  /\ pc = "cp"
  /\ \E status \in Statuses :
       RunStep("cp", status, "autogen",
               "Failed to copy Opus files to: ", "Failed to copy Opus files.")
  /\ UNCHANGED <<features, cfg, env, facts, installed_lib_directory, is_static, probes,
                 build_opus_args, command_builder, emitted>>

\* build_opus, lines 71-81.
BuildOpus_autogen ==
  /\ pc = "autogen"
  /\ \E status \in Statuses :
       RunStep("autogen", status, "configure_args",
               "Failed to run 'sh autogen.sh'.", "Failed to autogen Opus.")
  /\ UNCHANGED <<features, cfg, env, facts, installed_lib_directory, is_static, probes,
                 build_opus_args, command_builder, emitted>>

\* The linkage arguments of configure, lines 86-94.
configure_linkage_args(is_static_link) ==
  IF is_static_link
  THEN <<"--enable-static", "--disable-shared">>
  ELSE <<"--disable-static", "--enable-shared">>

\* build_opus, lines 83-110: the configure command is put together.
BuildOpus_configure_args ==
  /\ pc = "configure_args"
  /\ \E host \in Opt(Architectures), target \in Opt(Architectures),
        width \in Opt(PointerWidths) :
       LET f == [CARGO_CFG_HOST_ARCH |-> host, CARGO_CFG_TARGET_ARCH |-> target,
                 CARGO_CFG_TARGET_POINTER_WIDTH |-> width]
           cross == is_cross_compiled(f)
       IN /\ facts' = f
          /\ IF cross.panic # ""
             THEN /\ pc' = "panicked"
                  /\ panic' = cross.panic
                  /\ command_builder' = command_builder
             ELSE /\ pc' = "configure"
                  /\ panic' = panic
                  /\ command_builder' =
                       [args |-> <<"configure">> \o configure_linkage_args(Args.is_static)
                                   \o (IF cross.val THEN <<"--host">> ELSE <<>>),
                        envs |-> IF is_target_x32(f)
                                 THEN {<<"LDFLAGS", "-g -O2 -m32">>, <<"CFLAGS", "-g -O2 -m32">>}
                                 ELSE {},
                        prefix |-> <<>>]
  /\ UNCHANGED <<features, cfg, env, installed_lib_directory, is_static, probes,
                 build_opus_args, commands, emitted>>

\* build_opus, lines 112-129: the fixed arguments, the prefix, and the run.
BuildOpus_configure ==
  /\ pc = "configure"
  /\ command_builder' =
       [command_builder EXCEPT
          !.args = @ \o <<"--disable-doc", "--disable-extra-programs", "--with-pic",
                          "--prefix">>,
          !.prefix = replace_backslash(Args.build_directory)]
  /\ \E status \in Statuses :
       RunStep("configure", status, "make",
               "Failed to run 'configure' Opus.", "Failed to configure Opus.")
  /\ UNCHANGED <<features, cfg, env, facts, installed_lib_directory, is_static, probes,
                 build_opus_args, emitted>>

\* build_opus, lines 131-138.
BuildOpus_make ==
  /\ pc = "make"
  /\ \E status \in Statuses :
       RunStep("make", status, "make_install",
               "Failed to run 'make'.", "Failed to build Opus via 'make'.")
  /\ UNCHANGED <<features, cfg, env, facts, installed_lib_directory, is_static, probes,
                 build_opus_args, command_builder, emitted>>

\* build_opus, lines 140-154: make install and, when it succeeds, the directive.
BuildOpus_make_install ==
  /\ pc = "make_install"
  /\ \E status \in Statuses :
       /\ RunStep("make install", status, "done",
                  "Failed to run 'make install'.", "Failed to install Opus via 'make install'.")
       /\ emitted' = IF status = "ok"
                     THEN Append(emitted, [origin |-> "build_opus:source",
                                           kind |-> rustc_linking_word(Args.is_static),
                                           name |-> "opus",
                                           search |-> lib_subdirectory(Args.build_directory)])
                     ELSE emitted
  /\ UNCHANGED <<features, cfg, env, facts, installed_lib_directory, is_static, probes,
                 build_opus_args, command_builder>>

\* ARCHITECTURE of link_prebuilt_opus, lines 167-170.
ARCHITECTURE == IF cfg = "msvc_x86" THEN "x86" ELSE "x64"

\* build_opus (msvc, lines 158-160) and link_prebuilt_opus, lines 165-187.
LinkPrebuilt_installed ==
  /\ pc = "link_prebuilt_opus"
  /\ IsSome(Args.installed_lib_directory)
  /\ emitted' = Append(emitted, [origin |-> "link_prebuilt_opus:installed",
                                 kind |-> rustc_linking_word(Args.is_static),
                                 name |-> "opus",
                                 search |-> Args.installed_lib_directory[1]])
  /\ pc' = "done"
  /\ UNCHANGED <<features, cfg, env, facts, panic, installed_lib_directory, is_static,
                 probes, build_opus_args, command_builder, commands>>

\* link_prebuilt_opus, lines 189-201: the bundled binaries of the architecture.
LinkPrebuilt_bundled ==
  /\ pc = "link_prebuilt_opus"
  /\ ~IsSome(Args.installed_lib_directory)
  /\ \E found \in BOOLEAN :
       IF found
       THEN /\ emitted' = Append(emitted,
                 [origin |-> "link_prebuilt_opus:bundled",
                  kind |-> rustc_linking_word(Args.is_static),
                  name |-> "opus",
                  search |-> <<"msvc", ARCHITECTURE>>
                               \o (IF Args.is_static THEN <<>> ELSE <<"dy">>)])
            /\ pc' = IF Args.is_static THEN "done" ELSE "copy_dll"
            /\ panic' = panic
       ELSE /\ emitted' = emitted
            /\ pc' = "panicked"
            /\ panic' = "Could not canonicalise."
  /\ UNCHANGED <<features, cfg, env, facts, installed_lib_directory, is_static, probes,
                 build_opus_args, command_builder, commands>>

\* link_prebuilt_opus, lines 203-219, with find_cargo_target_dir (lines 223-244):
\* the walk up OUT_DIR and the copy of opus.dll each succeed or panic.
LinkPrebuilt_copy_dll ==
  /\ pc = "copy_dll"
  /\ \E outcome \in {"ok", "Environment variable 'CARGO_PKG_NAME' is missing.",
                     "Unexpected build path: ", "Failed to copy 'opus.dll'"} :
       IF outcome = "ok"
       THEN pc' = "done" /\ panic' = panic
       ELSE pc' = "panicked" /\ panic' = outcome
  /\ UNCHANGED <<features, cfg, env, facts, installed_lib_directory, is_static, probes,
                 build_opus_args, command_builder, commands, emitted>>

Next ==
  \/ Main_find_installed_opus
  \/ Main_is_static_build
  \/ Main_pkg_config_bypassed
  \/ Main_pkg_config_found
  \/ Main_pkg_config_not_found
  \/ Main_build_opus
  \/ BuildOpus_installed
  \/ BuildOpus_canonicalize
  \/ BuildOpus_cp
  \/ BuildOpus_autogen
  \/ BuildOpus_configure_args
  \/ BuildOpus_configure
  \/ BuildOpus_make
  \/ BuildOpus_make_install
  \/ LinkPrebuilt_installed
  \/ LinkPrebuilt_bundled
  \/ LinkPrebuilt_copy_dll

Spec == Init /\ [][Next]_vars

--------------------------------------------------------------------------
(* Vocabulary of the properties *)

Both == "static" \in features /\ "dynamic" \in features
StaticOverride == IsSome(env["LIBOPUS_STATIC"]) \/ IsSome(env["OPUS_STATIC"])
\* The resolver ends in the platform default: both toggles, or no preference.
TakesDefault ==
  Both \/ ("static" \notin features /\ ~StaticOverride /\ "dynamic" \notin features)

\* The state is the one is_static_build left: its facts are the last ones read.
JustResolved == "CARGO_CFG_TARGET_FAMILY" \in DOMAIN facts
\* What the resolver produced there.
Resolution ==
  IF pc = "panicked" THEN "fatal" ELSE IF is_static[1] THEN "Static" ELSE "Dynamic"

\* The platform default as a resolution.
DefaultResolution ==
  LET d == default_library_linking(facts)
  IN IF d.panic # "" THEN "fatal" ELSE IF d.val THEN "Static" ELSE "Dynamic"

OverrideSet == IsSome(env["LIBOPUS_LIB_DIR"]) \/ IsSome(env["OPUS_LIB_DIR"])
OverrideValue ==
  IF IsSome(env["LIBOPUS_LIB_DIR"]) THEN env["LIBOPUS_LIB_DIR"][1] ELSE env["OPUS_LIB_DIR"][1]

BypassSet == IsSome(env["LIBOPUS_NO_PKG"]) \/ IsSome(env["OPUS_NO_PKG"])
Probed == probes # <<>>
ProbeFound == Probed /\ probes[1].found
ProbeFailed == Probed /\ ~probes[1].found

StepOrder == <<"cp", "autogen", "configure", "make", "make install">>
StepFailed == \E i \in 1..Len(commands) : commands[i].status # "ok"

OutDirMissing == pc = "panicked" /\ panic = "Environment variable 'OUT_DIR' is missing."

--------------------------------------------------------------------------
\* C1: whatever the toggles and the static-override variables, is_static_build
\* follows one precedence: both toggles give the platform default (also when a
\* static-override variable is set); otherwise the static toggle or a
\* static-override variable gives Static; otherwise the dynamic toggle gives
\* Dynamic; otherwise the platform default.
C1_Precedence ==
  JustResolved =>
    /\ Both => Resolution = DefaultResolution
    /\ (~Both /\ ("static" \in features \/ StaticOverride)) => Resolution = "Static"
    /\ (~Both /\ "static" \notin features /\ ~StaticOverride /\ "dynamic" \in features)
         => Resolution = "Dynamic"
    /\ (features = {} /\ ~StaticOverride) => Resolution = DefaultResolution

\* Both toggles and both static-override variables set, resolved to Dynamic.
C1_Witness ==
  /\ JustResolved
  /\ Both
  /\ IsSome(env["LIBOPUS_STATIC"]) /\ IsSome(env["OPUS_STATIC"])
  /\ Resolution = "Dynamic"

C3_Original ==
  OverrideSet =>
    /\ ~Probed
    /\ commands = <<>>
    /\ \A i \in 1..Len(emitted) : emitted[i].search = OverrideValue
    /\ pc = "done" => Len(emitted) = 1

\* C3, amended: with a library-directory variable set, no source-build step
\* runs; pkg-config is probed only by a unix-or-gnu build with no bypass
\* variable set; every directive that is not the probe's has the value of the
\* first set variable as its search path, and a run that ends without the
\* probe having found the library has emitted exactly that one.
C3_Amended ==
  OverrideSet =>
    /\ commands = <<>>
    /\ Probed => (cfg = "unix_or_gnu" /\ ~BypassSet)
    /\ \A i \in 1..Len(emitted) :
         emitted[i].origin # "pkg_config" => emitted[i].search = OverrideValue
    /\ (pc = "done" /\ ~ProbeFound) =>
         (Len(emitted) = 1 /\ emitted[1].search = OverrideValue)

\* Both variables set to different values, the probe made and failed, and the
\* run ended with the directory of LIBOPUS_LIB_DIR.
C3_Witness ==
  /\ IsSome(env["LIBOPUS_LIB_DIR"]) /\ IsSome(env["OPUS_LIB_DIR"])
  /\ env["LIBOPUS_LIB_DIR"] # env["OPUS_LIB_DIR"]
  /\ ProbeFailed
  /\ pc = "done"
  /\ emitted[1].search = env["LIBOPUS_LIB_DIR"][1]

\* C4: once the probe has found the library the run is over: the only directive
\* is the probe's, build_opus was not called and no build step was run, with or
\* without a library-directory variable.
C4_ProbeShortCircuits ==
  ProbeFound =>
    /\ pc = "done"
    /\ Len(emitted) = 1
    /\ emitted[1].origin = "pkg_config"
    /\ build_opus_args = None
    /\ commands = <<>>

\* The probe found the library while a library directory was given.
C4_Witness == ProbeFound /\ OverrideSet /\ pc = "done"

\* C5: the steps run are a prefix of cp, autogen, configure, make, make install
\* (so none runs twice); only the last step run can have failed; and once a
\* step has failed the run has panicked with no directive emitted.
C5_StepsInOrder ==
  /\ Len(commands) <= Len(StepOrder)
  /\ \A i \in 1..Len(commands) : commands[i].step = StepOrder[i]
  /\ \A i \in 1..Len(commands) : i < Len(commands) => commands[i].status = "ok"
  /\ StepFailed => (pc = "panicked" /\ emitted = <<>>)

\* configure exited non-zero after cp and autogen succeeded.
C5_Witness ==
  /\ Len(commands) = 3
  /\ commands[3].status = "nonzero"
  /\ pc = "panicked"

\* C6: at most one directive is ever emitted, and a run that ends in success
\* has emitted exactly one, from the probe, from an installed-library fast
\* path, from the source build or from the bundled MSVC binaries.
C6_SingleDirective ==
  /\ Len(emitted) <= 1
  /\ pc = "done" =>
       /\ Len(emitted) = 1
       /\ emitted[1].origin \in {"pkg_config", "build_opus:installed", "build_opus:source",
                                 "link_prebuilt_opus:installed", "link_prebuilt_opus:bundled"}
  /\ (pc \in {"done", "panicked"} /\ emitted = <<>>) => pc = "panicked"

\* A source build that succeeded and emitted its directive.
C6_Witness ==
  /\ pc = "done"
  /\ Len(commands) = 5
  /\ emitted[1].origin = "build_opus:source"

\* C7: find_installed_opus is present iff one of the two variables is set, is
\* the value of LIBOPUS_LIB_DIR when that one is set (also when both are), and
\* the value of OPUS_LIB_DIR when only that one is set.
C7_FirstSetWins ==
  pc # "main" =>
    /\ IsSome(installed_lib_directory) <=> OverrideSet
    /\ IsSome(env["LIBOPUS_LIB_DIR"]) => installed_lib_directory = env["LIBOPUS_LIB_DIR"]
    /\ (~IsSome(env["LIBOPUS_LIB_DIR"]) /\ IsSome(env["OPUS_LIB_DIR"]))
         => installed_lib_directory = env["OPUS_LIB_DIR"]
    /\ ~OverrideSet => installed_lib_directory = None

\* Both variables set, to different directories.
C7_Witness ==
  /\ pc # "main"
  /\ IsSome(env["LIBOPUS_LIB_DIR"]) /\ IsSome(env["OPUS_LIB_DIR"])
  /\ env["LIBOPUS_LIB_DIR"] # env["OPUS_LIB_DIR"]
  /\ installed_lib_directory = env["LIBOPUS_LIB_DIR"]

\* The state is the one the cross-compilation check left or a later one of the
\* same call: the architecture variables are the last facts read.
ArchRead == "CARGO_CFG_HOST_ARCH" \in DOMAIN facts

\* C8: with both architecture variables present, configure gets --host exactly
\* when they differ; with either absent the run panics before configure is
\* run. The other predicates answer false for an absent variable: an absent
\* pointer width gives the 64-bit command, and absent target variables never
\* make the platform default Static or Dynamic.
C8_CrossCompiled ==
  /\ ArchRead =>
       LET host == facts["CARGO_CFG_HOST_ARCH"]
           target == facts["CARGO_CFG_TARGET_ARCH"]
           hostFlag == \E i \in 1..Len(command_builder.args) : command_builder.args[i] = "--host"
       IN /\ (IsSome(host) /\ IsSome(target)) =>
               /\ hostFlag <=> (host[1] # target[1])
               /\ ~IsSome(facts["CARGO_CFG_TARGET_POINTER_WIDTH"]) => command_builder.envs = {}
          /\ ~IsSome(host) =>
               /\ pc = "panicked"
               /\ panic = "Could not read host architecture environment variable."
               /\ Len(commands) = 2
          /\ (IsSome(host) /\ ~IsSome(target)) =>
               /\ pc = "panicked"
               /\ panic = "Could not read target architecture environment variable."
               /\ Len(commands) = 2
  /\ (JustResolved /\ TakesDefault) =>
       /\ (~IsSome(facts["CARGO_CFG_TARGET_FAMILY"]) /\ ~IsSome(facts["CARGO_CFG_TARGET_OS"]))
            => Resolution # "Dynamic"
       /\ (~IsSome(facts["CARGO_CFG_TARGET_FAMILY"]) /\ ~IsSome(facts["CARGO_CFG_TARGET_OS"])
             /\ ~IsSome(facts["CARGO_CFG_TARGET_ENV"]))
            => Resolution = "fatal"

\* The host architecture is absent while the target's is present: fatal.
C8_Witness ==
  /\ ArchRead
  /\ ~IsSome(facts["CARGO_CFG_HOST_ARCH"])
  /\ IsSome(facts["CARGO_CFG_TARGET_ARCH"])
  /\ pc = "panicked"

\* The unix-or-gnu run is past the pkg-config block of main.
PastPkgConfig == cfg = "unix_or_gnu" /\ IsSome(is_static) /\ pc # "pkg_config"

\* build_opus was called with the linkage the probe was asked for and the
\* library location found before it.
BuildCalledUnchanged ==
  /\ IsSome(build_opus_args)
  /\ Args.is_static = probes[1].statik
  /\ Args.is_static = is_static[1]
  /\ Args.installed_lib_directory = find_installed_opus(env)

\* C9 as stated: pkg-config is probed iff no bypass variable is set, and after a
\* failed probe the run always goes on to build_opus, with the linkage and the
\* library location unchanged.
C9_Original ==
  /\ PastPkgConfig => (Probed <=> ~BypassSet)
  /\ (ProbeFailed /\ pc # "build") => BuildCalledUnchanged

\* C9, amended: pkg-config is probed iff no bypass variable is set, and after a
\* failed probe the run goes on to build_opus, with the linkage and the library
\* location unchanged, unless OUT_DIR is missing, which is fatal before the
\* call.
C9_Amended ==
  /\ PastPkgConfig => (Probed <=> ~BypassSet)
  /\ (ProbeFailed /\ pc # "build") =>
       \/ BuildCalledUnchanged
       \/ (OutDirMissing /\ build_opus_args = None)

\* A failed probe followed by the call of build_opus.
C9_Witness ==
  /\ ProbeFailed
  /\ IsSome(build_opus_args)
  /\ pc = "build_opus"

\* The linkage arguments configure was given.
ConfigureLinkage == SubSeq(command_builder.args, 2, 3)

\* C10: every consumer gets the resolved linkage (the probe, configure, the
\* directive of the source build), and that directive names opus with a search
\* path that is the lib subdirectory of the prefix configure installed into.
C10_Claim ==
  /\ \A i \in 1..Len(probes) : probes[i].statik = is_static[1]
  /\ \A i \in 1..Len(commands) :
       commands[i].step = "configure" =>
         ConfigureLinkage = IF is_static[1]
                            THEN <<"--enable-static", "--disable-shared">>
                            ELSE <<"--disable-static", "--enable-shared">>
  /\ \A i \in 1..Len(emitted) :
       emitted[i].origin = "build_opus:source" =>
         /\ emitted[i].name = "opus"
         /\ emitted[i].kind = (IF is_static[1] THEN "static" ELSE "dylib")
         /\ emitted[i].search = command_builder.prefix \o <<"/", "l", "i", "b">>
====
